---------------------------- MODULE Spec2Model ----------------------------
(***************************************************************************)
(* A model of the peer-to-peer TCP messaging utility: the Server singleton *)
(* (the listening endpoint), the ConnectionsManager (the table of outbound *)
(* connections) and the readline dispatch loop with its command objects.   *)
(*                                                                         *)
(* JavaScript strings are sequences of one-character strings, so that      *)
(* parseInt, the IPv4 regular expression, trim/split/join and the number   *)
(* formatting of template literals are computed as the code computes them. *)
(***************************************************************************)
EXTENDS Integers, Sequences, FiniteSets, TLC

(***************************************************************************)
(* Bounds of the model.                                                    *)
(***************************************************************************)
\* The number of net.Socket objects addConnection may create in one run.
MaxSockets == 2
\* The number of sockets the tcpServer may accept in one run.
MaxInbound == 2

(***************************************************************************)
(* Program constants.                                                      *)
(***************************************************************************)
\* Port.isValid: this.value <= 1024 is rejected.
PortLow == 1024
\* Port.isValid: this.value >= 65535 is rejected.
PortHigh == 65535
\* parseInt(_, 10)
Radix == 10

\* The command names (ICommand.name of each command class).
s_help == <<"h", "e", "l", "p">>
s_myip == <<"m", "y", "i", "p">>
s_myport == <<"m", "y", "p", "o", "r", "t">>
s_connect == <<"c", "o", "n", "n", "e", "c", "t">>
s_list == <<"l", "i", "s", "t">>
s_terminate == <<"t", "e", "r", "m", "i", "n", "a", "t", "e">>
s_send == <<"s", "e", "n", "d">>
s_exit == <<"e", "x", "i", "t">>
\* socket.write(` joined`) of the 'connect' handler.
s_joined == <<" ", "j", "o", "i", "n", "e", "d">>
\* socket.write('Welcome------') of the tcpServer's connection callback.
s_welcome ==
    <<"W", "e", "l", "c", "o", "m", "e", "-", "-", "-", "-", "-", "-">>
\* 'id\tIP Address\tPort\n' of listConnections.
s_listHeader == <<"i", "d", "\t", "I", "P", " ", "A", "d", "d", "r", "e", "s", "s", "\t", "P", "o", "r", "t", "\n">>

(***************************************************************************)
(* Input strings of the model: addresses, ports, tokens.                   *)
(***************************************************************************)
ip_A == <<"1", "0", ".", "0", ".", "0", ".", "5">>
ip_B == <<"1", "0", ".", "0", ".", "0", ".", "6">>
ip_999 == <<"9", "9", "9", ".", "1", ".", "1", ".", "1">>
ip_abc == <<"a", "b", "c">>
ip_local1 == <<"1", "9", "2", ".", "1", "6", "8", ".", "1", ".", "7">>
ip_local2 == <<"1", "7", "2", ".", "1", "6", ".", "0", ".", "9">>
p_9000 == <<"9", "0", "0", "0">>
p_9001 == <<"9", "0", "0", "1">>
p_80 == <<"8", "0">>
p_1024 == <<"1", "0", "2", "4">>
p_65535 == <<"6", "5", "5", "3", "5">>
p_x == <<"x">>
p_4000 == <<"4", "0", "0", "0">>
p_5000 == <<"5", "0", "0", "0">>
t_1 == <<"1">>
t_2 == <<"2">>
t_1x == <<"1", "x">>
t_99 == <<"9", "9">>
t_hi == <<"h", "i">>
t_extra == <<"e", "x", "t", "r", "a">>
t_foo == <<"f", "o", "o">>
SP == <<" ">>

(***************************************************************************)
(* String utilities of the JavaScript runtime, as the code uses them.      *)
(***************************************************************************)
Digits == {"0", "1", "2", "3", "4", "5", "6", "7", "8", "9"}

DigitVal(c) ==
    CASE c = "0" -> 0 [] c = "1" -> 1 [] c = "2" -> 2 [] c = "3" -> 3
      [] c = "4" -> 4 [] c = "5" -> 5 [] c = "6" -> 6 [] c = "7" -> 7
      [] c = "8" -> 8 [] c = "9" -> 9

DigitChar(d) ==
    CASE d = 0 -> "0" [] d = 1 -> "1" [] d = 2 -> "2" [] d = 3 -> "3"
      [] d = 4 -> "4" [] d = 5 -> "5" [] d = 6 -> "6" [] d = 7 -> "7"
      [] d = 8 -> "8" [] d = 9 -> "9"

WhiteSpace == {" ", "\t", "\n"}

\* String.prototype.trim
RECURSIVE TrimLeft(_)
TrimLeft(s) ==
    IF s # <<>> /\ Head(s) \in WhiteSpace THEN TrimLeft(Tail(s)) ELSE s

RECURSIVE TrimRight(_)
TrimRight(s) ==
    IF s # <<>> /\ s[Len(s)] \in WhiteSpace
    THEN TrimRight(SubSeq(s, 1, Len(s) - 1))
    ELSE s

Trim(s) == TrimRight(TrimLeft(s))

\* String.prototype.split(sep) for a one-character separator: always at
\* least one piece, an empty piece between two adjacent separators.
RECURSIVE SplitAcc(_, _, _, _)
SplitAcc(s, sep, cur, acc) ==
    IF s = <<>> THEN Append(acc, cur)
    ELSE IF Head(s) = sep
         THEN SplitAcc(Tail(s), sep, <<>>, Append(acc, cur))
         ELSE SplitAcc(Tail(s), sep, Append(cur, Head(s)), acc)

Split(s, sep) == SplitAcc(s, sep, <<>>, <<>>)

\* Array.prototype.join(sep)
RECURSIVE Join(_, _)
Join(parts, sep) ==
    IF parts = <<>> THEN <<>>
    ELSE IF Len(parts) = 1 THEN parts[1]
    ELSE parts[1] \o sep \o Join(Tail(parts), sep)

\* The longest prefix of decimal digits of s.
RECURSIVE DigitPrefix(_)
DigitPrefix(s) ==
    IF s # <<>> /\ Head(s) \in Digits
    THEN <<Head(s)>> \o DigitPrefix(Tail(s))
    ELSE <<>>

RECURSIVE DigitsValue(_, _)
DigitsValue(ds, acc) ==
    IF ds = <<>> THEN acc
    ELSE DigitsValue(Tail(ds), acc * Radix + DigitVal(Head(ds)))

\* A JavaScript number as parseInt yields it: NaN, or an integer.
NaN == [nan |-> TRUE, val |-> 0]
Num(n) == [nan |-> FALSE, val |-> n]

\* parseInt(s, 10): leading white space is skipped, an optional sign is
\* read, then the longest run of digits; no digit at all is NaN.
parseInt(s) ==
    LET t == TrimLeft(s)
        neg == t # <<>> /\ Head(t) = "-"
        u == IF t # <<>> /\ Head(t) \in {"-", "+"} THEN Tail(t) ELSE t
        ds == DigitPrefix(u)
    IN  IF ds = <<>> THEN NaN
        ELSE Num(IF neg THEN 0 - DigitsValue(ds, 0) ELSE DigitsValue(ds, 0))

\* Number.isInteger / isNaN on a parseInt result.
isNaN(x) == x.nan
NumberIsInteger(x) == ~x.nan

\* String(n) of a template literal, for an integer.
RECURSIVE NatToString(_)
NatToString(n) ==
    IF n < Radix THEN <<DigitChar(n)>>
    ELSE NatToString(n \div Radix) \o <<DigitChar(n % Radix)>>

NumberToString(x) ==
    IF x.nan THEN <<"N", "a", "N">>
    ELSE IF x.val < 0 THEN <<"-">> \o NatToString(0 - x.val)
    ELSE NatToString(x.val)

(***************************************************************************)
(* Errors.  A function that can throw is an operator whose result carries  *)
(* err: the class of the error thrown, or NoError when it returns.         *)
(***************************************************************************)
NoError == "none"
IPError == "IPError"
InvalidPortError == "InvalidPortError"
InvalidArgumentsError == "InvalidArgumentsError"
ConnectionError == "ConnectionError"
\* The classes derived from ProgramError (the outer catch tells them apart
\* from any other error).
ProgramErrors == {IPError, InvalidPortError, InvalidArgumentsError, ConnectionError}

(***************************************************************************)
(* Port and IPv4.                                                          *)
(***************************************************************************)
\* new Port(value)
Port(value) == [value |-> value]

\* Port.isValid(): throws InvalidArgumentsError for a value that is not an
\* integer, or is <= 1024, or is >= 65535; returns true (NoError) otherwise.
isValid(port) ==
    IF ~NumberIsInteger(port.value)
       \/ port.value.val <= PortLow
       \/ port.value.val >= PortHigh
    THEN InvalidArgumentsError
    ELSE NoError

\* One repetition \d{1,3} of the regular expression.
IsOctetText(part) ==
    /\ Len(part) >= 1
    /\ Len(part) <= 3
    /\ \A i \in 1..Len(part) : part[i] \in Digits

\* isIPv4: /^(\d{1,3}\.){3}\d{1,3}$/.test(ip)
isIPv4(ip) ==
    LET parts == Split(ip, ".")
    IN  /\ Len(parts) = 4
        /\ \A i \in 1..4 : IsOctetText(parts[i])

\* createIPv4: throws IPError unless isIPv4(ip); returns ip itself.
createIPv4(ip) ==
    IF ~isIPv4(ip) THEN [err |-> IPError, ip |-> <<>>]
    ELSE [err |-> NoError, ip |-> ip]

\* os.networkInterfaces() as a list of entries; the answers the model draws.
Iface(family, internal, address) ==
    [family |-> family, internal |-> internal, address |-> address]

ip_loopback == <<"1", "2", "7", ".", "0", ".", "0", ".", "1">>
ip_v6 == <<"f", "e", "8", "0", ":", ":", "1">>

InterfaceAnswers ==
    { <<Iface("IPv4", TRUE, ip_loopback)>>,
      <<Iface("IPv4", TRUE, ip_loopback), Iface("IPv6", FALSE, ip_v6),
        Iface("IPv4", FALSE, ip_local1), Iface("IPv4", FALSE, ip_local2)>> }

\* The entries getIPAddress keeps: IPv4 and not internal, in order.
RECURSIVE ExternalIPv4(_)
ExternalIPv4(ifaces) ==
    IF ifaces = <<>> THEN <<>>
    ELSE IF Head(ifaces).family # "IPv4" \/ Head(ifaces).internal
         THEN ExternalIPv4(Tail(ifaces))
         ELSE <<Head(ifaces).address>> \o ExternalIPv4(Tail(ifaces))

\* getIPAddress: createIPv4 of every kept address (it throws on the first
\* that fails), then results[0], or IPError when there is none.
getIPAddress(ifaces) ==
    LET results == ExternalIPv4(ifaces)
    IN  IF \E i \in 1..Len(results) : createIPv4(results[i]).err # NoError
        THEN [err |-> IPError, ip |-> <<>>]
        ELSE IF Len(results) = 0 THEN [err |-> IPError, ip |-> <<>>]
        ELSE [err |-> NoError, ip |-> results[1]]

(***************************************************************************)
(* Server: the singleton listening endpoint.  srv.servers holds every      *)
(* Server object ever constructed (each construction calls                 *)
(* tcpServer.listen once), srv.instance is Server.instance: 0 while        *)
(* undefined, else the index of the object in srv.servers.                 *)
(***************************************************************************)
NoInstance == 0

\* The Server constructor.
newServer(port, ifaces) ==
    LET a == getIPAddress(ifaces)
    IN  IF a.err # NoError THEN [err |-> a.err, server |-> <<>>]
        ELSE [err |-> NoError,
              server |-> <<[ip |-> a.ip, port |-> port.value,
                            listen |-> port.value]>>]

\* getInstance without the `if (!Server.instance)` test: a Server is
\* constructed, and listens, on every call.
getInstance_alwaysNew(srv, portNumber, ifaces) ==
    LET portInt == parseInt(portNumber)
        port == Port(portInt)
    IN  IF isNaN(portInt) \/ ~NumberIsInteger(portInt)
        THEN [err |-> InvalidPortError, ret |-> NoInstance, srv |-> srv]
        ELSE IF isValid(port) # NoError
        THEN [err |-> isValid(port), ret |-> NoInstance, srv |-> srv]
        ELSE LET c == newServer(port, ifaces)
             IN  IF c.err # NoError
                 THEN [err |-> c.err, ret |-> NoInstance, srv |-> srv]
                 ELSE [err |-> NoError,
                       ret |-> Len(srv.servers) + 1,
                       srv |-> [servers |-> srv.servers \o c.server,
                                instance |-> Len(srv.servers) + 1]]

\* getInstance that honours the port of a later call: the existing
\* instance is returned, moved to the port it was asked for.
getInstance_honoursPort(srv, portNumber, ifaces) ==
    LET portInt == parseInt(portNumber)
        port == Port(portInt)
    IN  IF isNaN(portInt) \/ ~NumberIsInteger(portInt)
        THEN [err |-> InvalidPortError, ret |-> NoInstance, srv |-> srv]
        ELSE IF isValid(port) # NoError
        THEN [err |-> isValid(port), ret |-> NoInstance, srv |-> srv]
        ELSE IF srv.instance = NoInstance
        THEN LET c == newServer(port, ifaces)
             IN  IF c.err # NoError
                 THEN [err |-> c.err, ret |-> NoInstance, srv |-> srv]
                 ELSE [err |-> NoError,
                       ret |-> Len(srv.servers) + 1,
                       srv |-> [servers |-> srv.servers \o c.server,
                                instance |-> Len(srv.servers) + 1]]
        ELSE [err |-> NoError, ret |-> srv.instance,
              srv |-> [srv EXCEPT !.servers[srv.instance].port = port.value,
                                  !.servers[srv.instance].listen = port.value]]

\* Server.getInstance(portNumber): the result holds the error thrown (if
\* any), the instance returned, and Server's static state afterwards.
getInstance(srv, portNumber, ifaces) ==
    LET portInt == parseInt(portNumber)
        port == Port(portInt)
    IN  IF isNaN(portInt) \/ ~NumberIsInteger(portInt)
        THEN [err |-> InvalidPortError, ret |-> NoInstance, srv |-> srv]
        ELSE IF isValid(port) # NoError
        THEN [err |-> isValid(port), ret |-> NoInstance, srv |-> srv]
        ELSE IF srv.instance = NoInstance
        THEN LET c == newServer(port, ifaces)
             IN  IF c.err # NoError
                 THEN [err |-> c.err, ret |-> NoInstance, srv |-> srv]
                 ELSE [err |-> NoError,
                       ret |-> Len(srv.servers) + 1,
                       srv |-> [servers |-> srv.servers \o c.server,
                                instance |-> Len(srv.servers) + 1]]
        ELSE [err |-> NoError, ret |-> srv.instance, srv |-> srv]

(***************************************************************************)
(* net.Socket, as far as the program reads and drives it: the target of    *)
(* the connect attempt, socket.connecting, socket.destroyed, whether the    *)
(* connection is established (open), and the number of connect attempts    *)
(* issued on it that have neither succeeded nor failed yet (inflight).     *)
(***************************************************************************)
\* new net.Socket()
NewSocket ==
    [host |-> <<>>, port |-> NaN, connecting |-> FALSE, destroyed |-> FALSE,
     open |-> FALSE, inflight |-> 0]

\* A socket.connect that blocks until the connection is established.
SocketConnectCall_blocking(sk, host, port) ==
    [sk EXCEPT !.host = host, !.port = port, !.open = TRUE]

\* socket.connect({ host, port }): the attempt is in flight.
SocketConnectCall(sk, host, port) ==
    [sk EXCEPT !.host = host, !.port = port, !.connecting = TRUE,
               !.inflight = @ + 1]

\* socket.destroy(): also how the runtime tears a socket down after a
\* transport error or after the peer closed it.
SocketDestroy(sk) ==
    [sk EXCEPT !.destroyed = TRUE, !.connecting = FALSE, !.open = FALSE,
               !.inflight = 0]

(***************************************************************************)
(* ConnectionsManager.  A manager state st is                              *)
(*   [connections, nextId, sockets]:                                       *)
(* the connections array, _nextId, and the heap of socket objects, which   *)
(* a Connection refers to by its position in st.sockets.                   *)
(***************************************************************************)
Manager(connections, nextId, sockets) ==
    [connections |-> connections, nextId |-> nextId, sockets |-> sockets]

\* The result of a manager method or of a command: the error thrown (or
\* NoError), the manager state afterwards, the console.log output, the
\* socket.write calls made (<<socket, data>> each), and whether process.exit
\* was called.
Outcome(err, st, out, written, exit) ==
    [err |-> err, st |-> st, out |-> out, written |-> written, exit |-> exit]

Throw(err, st) == Outcome(err, st, <<>>, <<>>, FALSE)

\* One console.log: the literal part and the computed part of the message.
Log(tag, text) == [tag |-> tag, text |-> text]

\* connectSocket without its test of socket.connecting and
\* socket.destroyed: every call issues a connect attempt.
connectSocket_unguarded(sockets, connection) ==
    [sockets EXCEPT ![connection.socket] =
        SocketConnectCall(@, connection.remoteIP, connection.remotePort.value)]

\* connectSocket: connects only a socket that is neither connecting nor
\* destroyed.
connectSocket(sockets, connection) ==
    LET sk == sockets[connection.socket]
    IN  IF ~sk.connecting /\ ~sk.destroyed
        THEN [sockets EXCEPT ![connection.socket] =
                 SocketConnectCall(sk, connection.remoteIP,
                                   connection.remotePort.value)]
        ELSE sockets

\* updateConnectionIds with connection.id = index, the 0-based index of
\* forEach, the "+ 1" forgotten.
updateConnectionIds_zeroBased(st) ==
    Manager([i \in 1..Len(st.connections) |->
                [st.connections[i] EXCEPT !.id = i - 1]],
            Len(st.connections) + 1,
            st.sockets)

\* updateConnectionIds: connection.id = index + 1 for the 0-based index of
\* forEach (the position in the sequence here), then _nextId = length + 1.
updateConnectionIds(st) ==
    Manager([i \in 1..Len(st.connections) |->
                [st.connections[i] EXCEPT !.id = i]],
            Len(st.connections) + 1,
            st.sockets)

\* addConnection without its last statement, this._nextId++.
addConnection_noIncrement(st, remoteIP, remotePort) ==
    IF isValid(remotePort) # NoError THEN Throw(isValid(remotePort), st)
    ELSE IF remoteIP = <<>> THEN Throw(InvalidArgumentsError, st)
    ELSE
        LET socket == Len(st.sockets) + 1
            connection == [id |-> st.nextId, remoteIP |-> remoteIP,
                           remotePort |-> remotePort, socket |-> socket]
            pushed == Append(st.connections, connection)
            connected == connectSocket(Append(st.sockets, NewSocket), connection)
        IN  Outcome(NoError,
                    Manager(pushed, st.nextId, connected),
                    <<Log("Connection added!", <<>>)>>, <<>>, FALSE)

\* addConnection that writes ' joined' itself, right after connectSocket,
\* instead of leaving it to the 'connect' handler.
addConnection_joinsEarly(st, remoteIP, remotePort) ==
    IF isValid(remotePort) # NoError THEN Throw(isValid(remotePort), st)
    ELSE IF remoteIP = <<>> THEN Throw(InvalidArgumentsError, st)
    ELSE
        LET socket == Len(st.sockets) + 1
            connection == [id |-> st.nextId, remoteIP |-> remoteIP,
                           remotePort |-> remotePort, socket |-> socket]
            pushed == Append(st.connections, connection)
            connected == connectSocket(Append(st.sockets, NewSocket), connection)
        IN  Outcome(NoError,
                    Manager(pushed, st.nextId + 1, connected),
                    <<Log("Connection added!", <<>>)>>,
                    <<<<socket, s_joined>>>>, FALSE)

\* addConnection that returns without adding when the table already holds
\* an entry for the same remote IP and port.
addConnection_dedups(st, remoteIP, remotePort) ==
    IF isValid(remotePort) # NoError THEN Throw(isValid(remotePort), st)
    ELSE IF remoteIP = <<>> THEN Throw(InvalidArgumentsError, st)
    ELSE IF \E i \in 1..Len(st.connections) :
                /\ st.connections[i].remoteIP = remoteIP
                /\ st.connections[i].remotePort = remotePort
    THEN Outcome(NoError, st, <<>>, <<>>, FALSE)
    ELSE
        LET socket == Len(st.sockets) + 1
            connection == [id |-> st.nextId, remoteIP |-> remoteIP,
                           remotePort |-> remotePort, socket |-> socket]
            pushed == Append(st.connections, connection)
            connected == connectSocket(Append(st.sockets, NewSocket), connection)
        IN  Outcome(NoError,
                    Manager(pushed, st.nextId + 1, connected),
                    <<Log("Connection added!", <<>>)>>, <<>>, FALSE)

\* addConnection(remoteIP, remotePort)
addConnection(st, remoteIP, remotePort) ==
    IF isValid(remotePort) # NoError THEN Throw(isValid(remotePort), st)
    ELSE IF remoteIP = <<>> THEN Throw(InvalidArgumentsError, st)
    ELSE
        LET socket == Len(st.sockets) + 1
            connection == [id |-> st.nextId, remoteIP |-> remoteIP,
                           remotePort |-> remotePort, socket |-> socket]
            pushed == Append(st.connections, connection)
            connected == connectSocket(Append(st.sockets, NewSocket), connection)
        IN  Outcome(NoError,
                    Manager(pushed, st.nextId + 1, connected),
                    <<Log("Connection added!", <<>>)>>, <<>>, FALSE)

\* connections.findIndex(c => c.id === id): the first position holding id,
\* 0 when there is none (-1 in the code).
findIndex(connections, id) ==
    IF \E i \in 1..Len(connections) : connections[i].id = id
    THEN CHOOSE i \in 1..Len(connections) :
            /\ connections[i].id = id
            /\ \A j \in 1..(i - 1) : connections[j].id # id
    ELSE 0

\* connections.slice(index, 1) where splice was meant: nothing is removed.
splice_nonMutating(connections, index) == connections

\* connections.splice(index, 1)
splice(connections, index) ==
    SubSeq(connections, 1, index - 1)
        \o SubSeq(connections, index + 1, Len(connections))

\* removeConnection without its socket.destroy() call: the entry is
\* removed, its socket lives on.
removeConnection_leavesSocket(st, id) ==
    LET index == findIndex(st.connections, id)
    IN  IF index = 0 THEN Throw(ConnectionError, st)
        ELSE Outcome(NoError,
                     updateConnectionIds(
                         Manager(splice(st.connections, index), st.nextId,
                                 st.sockets)),
                     <<>>, <<>>, FALSE)

\* removeConnection without its updateConnectionIds call: the surviving
\* entries keep the ids they had.
removeConnection_keepsIds(st, id) ==
    LET index == findIndex(st.connections, id)
    IN  IF index = 0 THEN Throw(ConnectionError, st)
        ELSE
            LET s == st.connections[index].socket
                destroyed == [st.sockets EXCEPT ![s] = SocketDestroy(@)]
                spliced == splice(st.connections, index)
            IN  Outcome(NoError, Manager(spliced, st.nextId, destroyed),
                        <<>>, <<>>, FALSE)

\* removeConnection(id)
removeConnection(st, id) ==
    LET index == findIndex(st.connections, id)
    IN  IF index = 0 THEN Throw(ConnectionError, st)
        ELSE
            LET s == st.connections[index].socket
                destroyed == [st.sockets EXCEPT ![s] = SocketDestroy(@)]
                spliced == splice(st.connections, index)
            IN  Outcome(NoError,
                        updateConnectionIds(Manager(spliced, st.nextId, destroyed)),
                        <<>>, <<>>, FALSE)

\* One row of listConnections: `${id}\t${remoteIP}\t${remotePort.value}`
Row(connection) ==
    NatToString(connection.id) \o <<"\t">> \o connection.remoteIP
        \o <<"\t">> \o NumberToString(connection.remotePort.value)

\* listConnections that renders the rows newest first.
listConnections_newestFirst(st) ==
    s_listHeader
        \o Join([i \in 1..Len(st.connections) |->
                    Row(st.connections[Len(st.connections) + 1 - i])],
                <<"\n">>)

\* listConnections(): the header, then the rows joined by '\n'.
listConnections(st) ==
    s_listHeader
        \o Join([i \in 1..Len(st.connections) |-> Row(st.connections[i])],
                <<"\n">>)

\* sendMessage without the not-found test: an absent id is ignored
\* silently.
sendMessage_silent(st, connectionId, message) ==
    LET index == findIndex(st.connections, connectionId)
    IN  IF index = 0 THEN Outcome(NoError, st, <<>>, <<>>, FALSE)
        ELSE Outcome(NoError, st, <<>>,
                     <<<<st.connections[index].socket, message>>>>, FALSE)

\* sendMessage that drops the entry when it finds its socket destroyed.
sendMessage_prunesClosed(st, connectionId, message) ==
    LET index == findIndex(st.connections, connectionId)
    IN  IF index = 0 THEN Throw(ConnectionError, st)
        ELSE IF st.sockets[st.connections[index].socket].destroyed
        THEN Outcome(NoError, removeConnection(st, connectionId).st, <<>>,
                     <<<<st.connections[index].socket, message>>>>, FALSE)
        ELSE Outcome(NoError, st, <<>>,
                     <<<<st.connections[index].socket, message>>>>, FALSE)

\* sendMessage(connectionId, message)
sendMessage(st, connectionId, message) ==
    LET index == findIndex(st.connections, connectionId)
    IN  IF index = 0 THEN Throw(ConnectionError, st)
        ELSE Outcome(NoError, st, <<>>,
                     <<<<st.connections[index].socket, message>>>>, FALSE)

(***************************************************************************)
(* The commands.  args is the list of tokens after the command name.       *)
(***************************************************************************)
NoArgumentsAccepted(args) == Len(args) > 0

\* HelpCommand.execute
HelpCommand(args, st) ==
    IF NoArgumentsAccepted(args) THEN Throw(InvalidArgumentsError, st)
    ELSE Outcome(NoError, st, <<Log("Available commands:", <<>>)>>, <<>>, FALSE)

\* MyIPCommand.execute, server being the Server the command was built with.
MyIPCommand(args, st, server) ==
    IF NoArgumentsAccepted(args) THEN Throw(InvalidArgumentsError, st)
    ELSE Outcome(NoError, st, <<Log("IP Address: ", server.ip)>>, <<>>, FALSE)

\* MyPortCommand.execute
MyPortCommand(args, st, server) ==
    IF NoArgumentsAccepted(args) THEN Throw(InvalidArgumentsError, st)
    ELSE Outcome(NoError, st,
                 <<Log("Port: ", NumberToString(server.port))>>, <<>>, FALSE)

\* ConnectCommand.execute
ConnectCommand(args, st) ==
    IF Len(args) # 2 THEN Throw(InvalidArgumentsError, st)
    ELSE
        LET remoteIP == createIPv4(args[1])
            remotePort == Port(parseInt(args[2]))
        IN  IF remoteIP.err # NoError THEN Throw(remoteIP.err, st)
            ELSE IF isValid(remotePort) # NoError
            THEN Throw(isValid(remotePort), st)
            ELSE addConnection(st, remoteIP.ip, remotePort)

\* ListCommand.execute
ListCommand(args, st) ==
    IF NoArgumentsAccepted(args) THEN Throw(InvalidArgumentsError, st)
    ELSE Outcome(NoError, st, <<Log("", listConnections(st))>>, <<>>, FALSE)

\* TerminateCommand.execute
TerminateCommand(args, st) ==
    IF Len(args) < 1 THEN Throw(InvalidArgumentsError, st)
    ELSE
        LET connectionId == parseInt(args[1])
        IN  IF isNaN(connectionId) THEN Throw(InvalidArgumentsError, st)
            ELSE removeConnection(st, connectionId.val)

\* SendCommand.execute with message = args[1], the first word only, the
\* slice(1).join(' ') forgotten.
SendCommand_firstWord(args, st) ==
    IF Len(args) < 2 THEN Throw(InvalidArgumentsError, st)
    ELSE
        LET connectionId == parseInt(args[1])
            message == args[2]
        IN  IF isNaN(connectionId) THEN Throw(InvalidArgumentsError, st)
            ELSE IF message = <<>> THEN Throw(InvalidArgumentsError, st)
            ELSE sendMessage(st, connectionId.val, message)

\* SendCommand.execute
SendCommand(args, st) ==
    IF Len(args) < 2 THEN Throw(InvalidArgumentsError, st)
    ELSE
        LET connectionId == parseInt(args[1])
            message == Join(Tail(args), SP)
        IN  IF isNaN(connectionId) THEN Throw(InvalidArgumentsError, st)
            ELSE IF message = <<>> THEN Throw(InvalidArgumentsError, st)
            ELSE sendMessage(st, connectionId.val, message)

\* ExitCommand.execute: no argument check; process.exit(0).
ExitCommand(args, st) ==
    Outcome(NoError, st, <<Log("Exitting", <<>>)>>, <<>>, TRUE)

\* The names of the commands array.
CommandNames ==
    {s_help, s_myip, s_myport, s_connect, s_list, s_terminate, s_send, s_exit}

\* command.execute(commandArgs) of the command found by name; myip and
\* myport are the Server objects those two commands hold.
Execute(name, args, st, myip, myport) ==
    CASE name = s_help -> HelpCommand(args, st)
      [] name = s_myip -> MyIPCommand(args, st, myip)
      [] name = s_myport -> MyPortCommand(args, st, myport)
      [] name = s_connect -> ConnectCommand(args, st)
      [] name = s_list -> ListCommand(args, st)
      [] name = s_terminate -> TerminateCommand(args, st)
      [] name = s_send -> SendCommand(args, st)
      [] name = s_exit -> ExitCommand(args, st)

Line(tokens) == Join(tokens, SP)

\* The lines typed at the prompt.
InputLines ==
    { Line(<<s_connect, ip_A, p_9000>>), Line(<<s_connect, ip_B, p_9001>>),
      Line(<<s_connect, ip_999, p_80>>), Line(<<s_connect, ip_999, p_9000>>),
      Line(<<s_connect, ip_A, p_1024>>), Line(<<s_connect, ip_A, p_65535>>),
      Line(<<s_connect, ip_abc, p_9000>>), Line(<<s_connect, ip_A, p_x>>),
      Line(<<s_connect, ip_A>>),
      Line(<<s_list>>), SP \o Line(<<s_list>>) \o SP, Line(<<s_list, t_extra>>),
      Line(<<s_terminate, t_1>>), Line(<<s_terminate, t_2>>),
      Line(<<s_terminate, t_99>>), Line(<<s_terminate, p_x>>),
      Line(<<s_terminate>>), Line(<<s_terminate, t_1, t_2>>),
      Line(<<s_send, t_1, t_hi>>), Line(<<s_send, t_2, t_hi>>),
      Line(<<s_send, t_99, t_hi>>), Line(<<s_send, t_1>>),
      Line(<<s_send, p_x, t_hi>>), Line(<<s_send, t_1, t_hi, t_foo>>),
      Line(<<s_send, t_1, <<>>, t_hi>>), Line(<<s_send, t_1x, t_hi>>),
      Line(<<s_myip>>), Line(<<s_myport>>), Line(<<s_help>>),
      Line(<<s_myip, t_extra>>), Line(<<s_exit>>), Line(<<s_exit, t_extra>>),
      Line(<<t_foo>>), <<>> }

\* input.trim().split(' ') of every line of InputLines.
inputArgs[line \in InputLines] == Split(Trim(line), " ")

\* A line handler that treats an unknown command name as an
\* invalid-arguments error.
Dispatch_unknownIsError(line, st, myip, myport) ==
    IF inputArgs[line][1] \in CommandNames
    THEN Execute(inputArgs[line][1], Tail(inputArgs[line]), st, myip, myport)
    ELSE IF line = <<>> THEN Outcome(NoError, st, <<>>, <<>>, FALSE)
    ELSE Throw(InvalidArgumentsError, st)

\* The body of cli.on('line'): the command's outcome with any error it
\* threw caught (err tells which), or the "unknown command" message.
Dispatch(line, st, myip, myport) ==
    IF inputArgs[line][1] \in CommandNames
    THEN Execute(inputArgs[line][1], Tail(inputArgs[line]), st, myip, myport)
    ELSE IF line = <<>> THEN Outcome(NoError, st, <<>>, <<>>, FALSE)
    ELSE Outcome(NoError, st, <<Log("Unkown command", <<>>)>>, <<>>, FALSE)

(***************************************************************************)
(* The state of the process.                                               *)
(***************************************************************************)
VARIABLES
    pc,           \* "init" before the script ran, "running", "exited"
    exitCode,     \* the code given to process.exit, -1 while running
    argv,         \* process.argv.slice(2)
    interfaces,   \* what os.networkInterfaces() answers on this host
    servers,      \* every Server object constructed (each listens once)
    instance,     \* Server.instance
    cmdServer,    \* the Server held by MyIPCommand and by MyPortCommand
    connections,  \* ConnectionsManager.connections
    nextId,       \* ConnectionsManager._nextId
    sockets,      \* the net.Socket objects created by addConnection
    event,        \* the handler that ran last
    input,        \* the string that handler was given (a line, a port)
    sock,         \* the socket whose event that handler served, 0 if none
    err,          \* the error that handler threw or caught, NoError if none
    out,          \* what that handler logged with console.log
    written,      \* the socket.write calls that handler made
    ret,          \* the instance that handler's last Server.getInstance call
                  \* returned, NoInstance if it made none or the call threw
    tcpClients,   \* Server.tcpClients: the sockets the tcpServer accepted
    inbound       \* the net.Socket objects the tcpServer accepted

serverVars == <<servers, instance, cmdServer>>
tableVars == <<connections, nextId, sockets>>
inboundVars == <<tcpClients, inbound>>
vars ==
    <<pc, exitCode, argv, interfaces, servers, instance, cmdServer, connections, nextId,
      sockets, event, input, sock, err, out, written, ret, tcpClients, inbound>>

\* The command lines the process is started with.
ArgvSet ==
    { <<p_4000>>, <<>>, <<p_4000, p_5000>>, <<p_80>>, <<p_1024>>, <<p_65535>>,
      <<p_x>> }

\* The port strings a later caller hands to Server.getInstance.
PortArguments == {p_4000, p_5000, p_80, p_65535, p_x}

Init ==
    /\ pc = "init"
    /\ exitCode = -1
    /\ argv \in ArgvSet
    /\ interfaces \in InterfaceAnswers
    /\ servers = <<>>
    /\ instance = NoInstance
    /\ cmdServer = [myip |-> NoInstance, myport |-> NoInstance]
    /\ connections = <<>>
    /\ nextId = 1
    /\ sockets = <<>>
    /\ event = "none"
    /\ input = <<>>
    /\ sock = 0
    /\ err = NoError
    /\ out = <<>>
    /\ written = <<>>
    /\ ret = NoInstance
    /\ tcpClients = <<>>
    /\ inbound = <<>>

\* The script's top level: the argument count, the two Server.getInstance
\* calls that build MyIPCommand and MyPortCommand, the ConnectionsManager,
\* the readline interface.  Any error thrown is caught by the outer catch,
\* which ends the process with code 1.
Startup ==
    /\ pc = "init"
    /\ LET srv0 == [servers |-> servers, instance |-> instance]
           first == IF Len(argv) # 1
                    THEN [err |-> InvalidArgumentsError, ret |-> NoInstance,
                          srv |-> srv0]
                    ELSE getInstance(srv0, argv[1], interfaces)
           second == IF first.err # NoError THEN first
                     ELSE getInstance(first.srv, argv[1], interfaces)
       IN  /\ servers' = second.srv.servers
           /\ instance' = second.srv.instance
           /\ err' = second.err
           /\ ret' = second.ret
           /\ IF second.err = NoError
              THEN /\ cmdServer' = [myip |-> first.ret, myport |-> second.ret]
                   /\ pc' = "running"
                   /\ exitCode' = exitCode
              ELSE /\ cmdServer' = cmdServer
                   /\ pc' = "exited"
                   /\ exitCode' = 1
    /\ event' = "startup"
    /\ input' = <<>>
    /\ sock' = 0
    /\ out' = <<>>
    /\ written' = <<>>
    /\ UNCHANGED <<argv, interfaces, connections, nextId, sockets>>
    /\ UNCHANGED inboundVars

\* A later call of the public Server.getInstance(portNumber).
GetInstance(portNumber) ==
    /\ pc = "running"
    /\ \E r \in {getInstance([servers |-> servers, instance |-> instance],
                              portNumber, interfaces)} :
           /\ servers' = r.srv.servers
           /\ instance' = r.srv.instance
           /\ err' = r.err
           /\ ret' = r.ret
    /\ event' = "getInstance"
    /\ input' = portNumber
    /\ sock' = 0
    /\ out' = <<>>
    /\ written' = <<>>
    /\ UNCHANGED <<pc, exitCode, argv, interfaces, cmdServer, connections,
                   nextId, sockets>>
    /\ UNCHANGED inboundVars

\* A line handler without its try/catch: an error thrown by the command is
\* uncaught and ends the process with code 1.
LineHandler_uncaught(line) ==
    /\ pc = "running"
    /\ \E r \in {Dispatch(line, Manager(connections, nextId, sockets),
                         servers[cmdServer.myip], servers[cmdServer.myport])} :
           /\ Len(r.st.sockets) <= MaxSockets
           /\ connections' = r.st.connections
           /\ nextId' = r.st.nextId
           /\ sockets' = r.st.sockets
           /\ err' = r.err
           /\ out' = r.out
           /\ written' = r.written
           /\ pc' = IF r.exit \/ r.err # NoError THEN "exited" ELSE "running"
           /\ exitCode' = IF r.err # NoError THEN 1
                           ELSE IF r.exit THEN 0 ELSE exitCode
    /\ event' = "line"
    /\ input' = line
    /\ sock' = 0
    /\ ret' = NoInstance
    /\ UNCHANGED <<argv, interfaces, servers, instance, cmdServer>>
    /\ UNCHANGED inboundVars

\* cli.on('line', ...): one line is dispatched, run to its end, and every
\* error the command throws is caught and printed.
LineHandler(line) ==
    /\ pc = "running"
    /\ \E r \in {Dispatch(line, Manager(connections, nextId, sockets),
                         servers[cmdServer.myip], servers[cmdServer.myport])} :
           /\ Len(r.st.sockets) <= MaxSockets
           /\ connections' = r.st.connections
           /\ nextId' = r.st.nextId
           /\ sockets' = r.st.sockets
           /\ err' = r.err
           /\ out' = r.out
           /\ written' = r.written
           /\ pc' = IF r.exit THEN "exited" ELSE "running"
           /\ exitCode' = IF r.exit THEN 0 ELSE exitCode
    /\ event' = "line"
    /\ input' = line
    /\ sock' = 0
    /\ ret' = NoInstance
    /\ UNCHANGED <<argv, interfaces, servers, instance, cmdServer>>
    /\ UNCHANGED inboundVars

\* cli.on('close', ...): the input stream ended; process.exit(0).
CloseHandler ==
    /\ pc = "running"
    /\ pc' = "exited"
    /\ exitCode' = 0
    /\ event' = "close-input"
    /\ input' = <<>>
    /\ sock' = 0
    /\ err' = NoError
    /\ out' = <<Log("Exiting CLI", <<>>)>>
    /\ written' = <<>>
    /\ ret' = NoInstance
    /\ UNCHANGED <<argv, interfaces, servers, instance, cmdServer, connections,
                   nextId, sockets>>
    /\ UNCHANGED inboundVars

\* socket.on('connect', ...) of addConnection: the attempt of socket s
\* succeeded; the handler renumbers and writes ' joined'.
SocketConnect(s) ==
    /\ pc = "running"
    /\ sockets[s].connecting
    /\ ~sockets[s].destroyed
    /\ \E st \in {updateConnectionIds(
                      Manager(connections, nextId,
                              [sockets EXCEPT ![s].connecting = FALSE,
                                              ![s].open = TRUE,
                                              ![s].inflight = @ - 1]))} :
           /\ connections' = st.connections
           /\ nextId' = st.nextId
           /\ sockets' = st.sockets
    /\ written' = <<<<s, s_joined>>>>
    /\ event' = "connect"
    /\ input' = <<>>
    /\ sock' = s
    /\ err' = NoError
    /\ out' = <<>>
    /\ ret' = NoInstance
    /\ UNCHANGED <<pc, exitCode, argv, interfaces, servers, instance, cmdServer>>
    /\ UNCHANGED inboundVars

\* An 'error' handler that reconnects: it issues a new connect attempt on
\* the socket that failed.
SocketError_retries(s) ==
    /\ pc = "running"
    /\ sockets[s].connecting \/ sockets[s].open
    /\ ~sockets[s].destroyed
    /\ sockets' = [sockets EXCEPT ![s] =
                       SocketConnectCall([@ EXCEPT !.open = FALSE, !.inflight = 0],
                                         @.host, @.port)]
    /\ event' = "error"
    /\ input' = <<>>
    /\ sock' = s
    /\ err' = NoError
    /\ out' = <<Log("server is offline..", <<>>)>>
    /\ written' = <<>>
    /\ ret' = NoInstance
    /\ UNCHANGED <<pc, exitCode, argv, interfaces, servers, instance, cmdServer,
                   connections, nextId>>
    /\ UNCHANGED inboundVars

\* An 'error' handler that also evicts the entry of the failed socket and
\* renumbers the rest.
SocketError_evicts(s) ==
    /\ pc = "running"
    /\ sockets[s].connecting \/ sockets[s].open
    /\ ~sockets[s].destroyed
    /\ \E st \in {updateConnectionIds(
                      Manager(SelectSeq(connections, LAMBDA c : c.socket # s),
                              nextId,
                              [sockets EXCEPT ![s] = SocketDestroy(@)]))} :
           /\ connections' = st.connections
           /\ nextId' = st.nextId
           /\ sockets' = st.sockets
    /\ event' = "error"
    /\ input' = <<>>
    /\ sock' = s
    /\ err' = NoError
    /\ out' = <<Log("server is offline..", <<>>)>>
    /\ written' = <<>>
    /\ ret' = NoInstance
    /\ UNCHANGED <<pc, exitCode, argv, interfaces, servers, instance, cmdServer>>
    /\ UNCHANGED inboundVars

\* socket.on('error', ...) of addConnection: the attempt failed or the
\* established connection broke; the runtime destroys the socket, the
\* handler only logs.
SocketError(s) ==
    /\ pc = "running"
    /\ sockets[s].connecting \/ sockets[s].open
    /\ ~sockets[s].destroyed
    /\ sockets' = [sockets EXCEPT ![s] = SocketDestroy(@)]
    /\ event' = "error"
    /\ input' = <<>>
    /\ sock' = s
    /\ err' = NoError
    /\ out' = <<Log("server is offline..", <<>>)>>
    /\ written' = <<>>
    /\ ret' = NoInstance
    /\ UNCHANGED <<pc, exitCode, argv, interfaces, servers, instance, cmdServer,
                   connections, nextId>>
    /\ UNCHANGED inboundVars

\* The peer closed an established connection: the runtime destroys the
\* socket; addConnection registers no 'close' or 'end' handler.
SocketClose(s) ==
    /\ pc = "running"
    /\ sockets[s].open
    /\ ~sockets[s].destroyed
    /\ sockets' = [sockets EXCEPT ![s] = SocketDestroy(@)]
    /\ event' = "close"
    /\ input' = <<>>
    /\ sock' = s
    /\ err' = NoError
    /\ out' = <<>>
    /\ written' = <<>>
    /\ ret' = NoInstance
    /\ UNCHANGED <<pc, exitCode, argv, interfaces, servers, instance, cmdServer,
                   connections, nextId>>
    /\ UNCHANGED inboundVars

Next ==
    \/ Startup
    \/ \E p \in PortArguments : GetInstance(p)
    \/ \E line \in InputLines : LineHandler(line)
    \/ CloseHandler
    \/ \E s \in 1..Len(sockets) : SocketConnect(s)
    \/ \E s \in 1..Len(sockets) : SocketError(s)
    \/ \E s \in 1..Len(sockets) : SocketClose(s)

Spec == Init /\ [][Next]_vars

(***************************************************************************)
(* The listening side: the sockets the tcpServer accepts and their         *)
(* handlers, run next to a few commands that fill and empty the table.     *)
(***************************************************************************)
\* socket.remoteAddress?.replace(/^.*:/, ''): what follows the last colon.
RECURSIVE StripToLastColon(_)
StripToLastColon(s) ==
    IF \E i \in 1..Len(s) : s[i] = ":"
    THEN StripToLastColon(Tail(s))
    ELSE s

\* The peers that connect to the tcpServer: remoteAddress and remotePort of
\* the accepted socket.
InboundPeers ==
    { [remoteAddress |-> <<":", ":", "f", "f", "f", "f", ":">> \o ip_A,
       remotePort |-> 50001],
      [remoteAddress |-> ip_B, remotePort |-> 50002] }

\* The data an accepted socket receives.
InboundData == {t_hi}

\* The callback of net.createServer: the accepted socket is pushed on
\* tcpClients, logged and greeted.
Accept(peer) ==
    /\ pc = "running"
    /\ Len(inbound) < MaxInbound
    /\ inbound' = Append(inbound, [remoteAddress |-> peer.remoteAddress,
                                    remotePort |-> peer.remotePort,
                                    destroyed |-> FALSE, closed |-> FALSE])
    /\ tcpClients' = Append(tcpClients, Len(inbound) + 1)
    /\ event' = "accept"
    /\ input' = <<>>
    /\ sock' = Len(inbound) + 1
    /\ err' = NoError
    /\ out' = <<Log("New Client connected:  ",
                    StripToLastColon(peer.remoteAddress))>>
    /\ written' = <<<<Len(inbound) + 1, s_welcome>>>>
    /\ ret' = NoInstance
    /\ UNCHANGED <<pc, exitCode, argv, interfaces, servers, instance, cmdServer,
                   connections, nextId, sockets>>

\* socket.on('data', ...) of an accepted socket: three lines are logged.
InboundDataHandler(c, data) ==
    /\ pc = "running"
    /\ ~inbound[c].destroyed
    /\ event' = "inbound-data"
    /\ input' = data
    /\ sock' = c
    /\ err' = NoError
    /\ out' = <<Log("Message received from:\t ",
                    StripToLastColon(inbound[c].remoteAddress)),
                Log("Sender port:\t\t ", NumberToString(Num(inbound[c].remotePort))),
                Log("Message:\t\t ", data)>>
    /\ written' = <<>>
    /\ ret' = NoInstance
    /\ UNCHANGED <<pc, exitCode, argv, interfaces, servers, instance, cmdServer,
                   connections, nextId, sockets, tcpClients, inbound>>

\* socket.on('error', ...) of an accepted socket: the runtime destroys the
\* socket, the handler only logs.
InboundError(c) ==
    /\ pc = "running"
    /\ ~inbound[c].destroyed
    /\ inbound' = [inbound EXCEPT ![c].destroyed = TRUE]
    /\ event' = "inbound-error"
    /\ input' = <<>>
    /\ sock' = c
    /\ err' = NoError
    /\ out' = <<Log("A client has disconnected!", <<>>)>>
    /\ written' = <<>>
    /\ ret' = NoInstance
    /\ UNCHANGED <<pc, exitCode, argv, interfaces, servers, instance, cmdServer,
                   connections, nextId, sockets, tcpClients>>

\* socket.on('close', ...) of an accepted socket: emitted once, when the
\* peer closed the connection or after an error destroyed the socket; the
\* handler only logs.
InboundClose(c) ==
    /\ pc = "running"
    /\ ~inbound[c].closed
    /\ inbound' = [inbound EXCEPT ![c].destroyed = TRUE, ![c].closed = TRUE]
    /\ event' = "inbound-close"
    /\ input' = <<>>
    /\ sock' = c
    /\ err' = NoError
    /\ out' = <<Log("A client terminated connection!", <<>>)>>
    /\ written' = <<>>
    /\ ret' = NoInstance
    /\ UNCHANGED <<pc, exitCode, argv, interfaces, servers, instance, cmdServer,
                   connections, nextId, sockets, tcpClients>>

\* The commands typed while peers come and go.
InboundLines ==
    { Line(<<s_connect, ip_A, p_9000>>), Line(<<s_terminate, t_1>>),
      Line(<<s_list>>) }

NextInbound ==
    \/ Startup
    \/ \E line \in InboundLines : LineHandler(line)
    \/ \E s \in 1..Len(sockets) : SocketConnect(s)
    \/ \E peer \in InboundPeers : Accept(peer)
    \/ \E c \in 1..Len(inbound), data \in InboundData : InboundDataHandler(c, data)
    \/ \E c \in 1..Len(inbound) : InboundError(c)
    \/ \E c \in 1..Len(inbound) : InboundClose(c)

SpecInbound == Init /\ [][NextInbound]_vars

(***************************************************************************)
(* The connect path invoked again on an existing connection, as the        *)
(* 'disconnected' listener of the earlier variant's startListening does,   *)
(* at any time and any number of times.                                    *)
(***************************************************************************)
\* connections.find(conn => conn.socket === socket), then
\* `if (connection) this.connectSocket(connection)`.
Reconnect(s) ==
    /\ pc = "running"
    /\ \E found \in {{i \in 1..Len(connections) : connections[i].socket = s}} :
           sockets' = IF found = {} THEN sockets
                      ELSE connectSocket(sockets,
                                         connections[CHOOSE i \in found : TRUE])
    /\ event' = "reconnect"
    /\ input' = <<>>
    /\ sock' = s
    /\ err' = NoError
    /\ out' = <<>>
    /\ written' = <<>>
    /\ ret' = NoInstance
    /\ UNCHANGED <<pc, exitCode, argv, interfaces, servers, instance, cmdServer,
                   connections, nextId, tcpClients, inbound>>

\* The commands typed while the connect path is exercised.
ReconnectLines ==
    { Line(<<s_connect, ip_A, p_9000>>), Line(<<s_connect, ip_B, p_9001>>),
      Line(<<s_terminate, t_1>>), Line(<<s_send, t_1, t_hi>>) }

NextReconnect ==
    \/ Startup
    \/ \E line \in ReconnectLines : LineHandler(line)
    \/ \E s \in 1..Len(sockets) : SocketConnect(s)
    \/ \E s \in 1..Len(sockets) : SocketError(s)
    \/ \E s \in 1..Len(sockets) : SocketClose(s)
    \/ \E s \in 1..Len(sockets) : Reconnect(s)

SpecReconnect == Init /\ [][NextReconnect]_vars

(***************************************************************************)
(* Properties.                                                            *)
(***************************************************************************)
\* The command name and the arguments of a dispatched line.
CommandOf(line) == inputArgs[line][1]
ArgsOf(line) == Tail(inputArgs[line])

\* The step is the dispatch of a line naming command name.
Dispatched(name) == event' = "line" /\ CommandOf(input') = name

\* The last handler was the dispatch of a line naming command name.
WasDispatched(name) == event = "line" /\ CommandOf(input) = name

\* Some entry of the table holds identifier id.
Holds(id) == \E i \in 1..Len(connections) : connections[i].id = id

TAB == <<"\t">>
NL == <<"\n">>

\* C1: identifier density.  In every reachable state, whatever the
\* interleaving of connect and terminate commands with socket events, the
\* entry at position i of the table holds id i, so the ids are unique and
\* are exactly 1..size.
C1_IdentifierDensity ==
    /\ \A i \in 1..Len(connections) : connections[i].id = i
    /\ {connections[i].id : i \in 1..Len(connections)} = 1..Len(connections)
    /\ \A i, j \in 1..Len(connections) :
          connections[i].id = connections[j].id => i = j

\* A terminate of the first of two entries has renumbered the survivor
\* after one of the sockets had connected.
C1_Witness ==
    /\ WasDispatched(s_terminate)
    /\ err = NoError
    /\ Len(connections) = 1
    /\ connections[1].id = 1
    /\ connections[1].socket = 2
    /\ sockets[2].open

\* C2: after every completed mutation of the table (addConnection,
\* removeConnection, the renumbering of a 'connect' handler), _nextId is the
\* size of the table plus one.
C2_NextIdIsSizePlusOne == nextId = Len(connections) + 1

\* The 'connect' handler of the second socket has run on a table of two.
C2_Witness ==
    /\ event = "connect"
    /\ sock = 2
    /\ Len(connections) = 2
    /\ nextId = 3

\* C3: a terminate of an id the table holds destroys that entry's socket,
\* removes that entry and no other, keeps the other entries in their order
\* with ids 1..N, their remote IP, port and socket unchanged, and sets
\* _nextId to N + 1.
C3_RemoveRenumbers ==
    [][ (/\ Dispatched(s_terminate)
         /\ Len(ArgsOf(input')) >= 1
         /\ ~isNaN(parseInt(ArgsOf(input')[1]))
         /\ Holds(parseInt(ArgsOf(input')[1]).val))
        =>
        LET id == parseInt(ArgsOf(input')[1]).val
            k == CHOOSE i \in 1..Len(connections) : connections[i].id = id
            N == Len(connections) - 1
        IN  /\ err' = NoError
            /\ Len(connections') = N
            /\ nextId' = N + 1
            /\ \A j \in 1..N :
                  LET old == connections[IF j < k THEN j ELSE j + 1]
                  IN  /\ connections'[j].id = j
                      /\ connections'[j].remoteIP = old.remoteIP
                      /\ connections'[j].remotePort = old.remotePort
                      /\ connections'[j].socket = old.socket
            /\ sockets'[connections[k].socket].destroyed
            /\ \A s \in 1..Len(sockets) :
                  s # connections[k].socket => sockets'[s] = sockets[s]
            /\ Len(sockets') = Len(sockets)
      ]_vars

\* With ids 1 and 2, `terminate 1` has left one entry, with id 1, carrying
\* the address and port of the former id 2; the socket of the former id 1
\* is destroyed.
C3_Witness ==
    /\ event = "line"
    /\ input = Line(<<s_terminate, t_1>>)
    /\ err = NoError
    /\ Len(connections) = 1
    /\ connections[1].id = 1
    /\ connections[1].remoteIP = ip_B
    /\ connections[1].remotePort = Port(Num(9001))
    /\ connections[1].socket = 2
    /\ sockets[1].destroyed
    /\ sockets[1].host = ip_A
    /\ nextId = 2

\* The text `list` prints for a table whose i-th entry was the i-th
\* connect attempt issued among the live ones: row i shows i and the host
\* and port that attempt was issued to.
ExpectedListing ==
    s_listHeader
        \o Join([i \in 1..Len(connections) |->
                    NatToString(i) \o TAB \o sockets[connections[i].socket].host
                        \o TAB
                        \o NumberToString(sockets[connections[i].socket].port)],
                NL)

\* C4: `list` prints the header row and then one row (id, remote IP, remote
\* port) per entry, in insertion order: the entries stand in the order
\* their sockets were created, and row i is entry i.
C4_ListInInsertionOrder ==
    (WasDispatched(s_list) /\ err = NoError)
    =>
    /\ out = <<Log("", ExpectedListing)>>
    /\ \A i, j \in 1..Len(connections) :
          i < j => connections[i].socket < connections[j].socket

\* From the empty table, connect 10.0.0.5 9000, connect 10.0.0.6 9001 and
\* list: row 1 is 10.0.0.5 and row 2 is 10.0.0.6.
C4_Witness ==
    /\ WasDispatched(s_list)
    /\ Len(sockets) = 2
    /\ out = <<Log("", s_listHeader
                         \o t_1 \o TAB \o ip_A \o TAB \o p_9000 \o NL
                         \o t_2 \o TAB \o ip_B \o TAB \o p_9001)>>

\* The line is a send or a terminate that reaches the table (its own
\* argument checks pass) with the identifier id.
ReachesTableWith(line, id) ==
    \/ /\ CommandOf(line) = s_send
       /\ Len(ArgsOf(line)) >= 2
       /\ Join(Tail(ArgsOf(line)), SP) # <<>>
       /\ parseInt(ArgsOf(line)[1]) = Num(id)
    \/ /\ CommandOf(line) = s_terminate
       /\ Len(ArgsOf(line)) >= 1
       /\ parseInt(ArgsOf(line)[1]) = Num(id)

IdsNamed == {1, 2, 99}

\* C5: a send or a terminate naming an id no entry holds fails with
\* ConnectionError, writes to no socket and leaves the entries, the ids,
\* _nextId and the sockets as they were; the error is caught and the loop
\* goes on.
C5_NotFound ==
    [][ \A id \in IdsNamed :
          (/\ event' = "line"
           /\ ReachesTableWith(input', id)
           /\ ~Holds(id))
          =>
          /\ err' = ConnectionError
          /\ written' = <<>>
          /\ connections' = connections
          /\ nextId' = nextId
          /\ sockets' = sockets
          /\ pc' = "running"
      ]_vars

\* `send 99 hi` on the empty table failed with ConnectionError and the
\* table is still empty.
C5_Witness ==
    /\ event = "line"
    /\ input = Line(<<s_send, t_99, t_hi>>)
    /\ err = ConnectionError
    /\ connections = <<>>
    /\ nextId = 1
    /\ written = <<>>
    /\ pc = "running"

\* A well-formed dotted-quad IPv4 address: four decimal octets, each 0..255.
WellFormedDottedQuad(ip) ==
    LET parts == Split(ip, ".")
    IN  /\ Len(parts) = 4
        /\ \A i \in 1..4 :
              /\ IsOctetText(parts[i])
              /\ DigitsValue(parts[i], 0) <= 255

\* A port text that parses as an integer in the open range (1024, 65535).
ValidPortText(text) ==
    /\ ~parseInt(text).nan
    /\ parseInt(text).val > PortLow
    /\ parseInt(text).val < PortHigh

\* C6: a connect command whose IP argument is not a well-formed dotted quad
\* (four octets, each 0..255) fails with IPError and with no other error,
\* and the table (entries, ids, _nextId) and the sockets are not changed.
C6_MalformedIPIsIPError ==
    [][ (/\ Dispatched(s_connect)
         /\ Len(ArgsOf(input')) = 2
         /\ ~WellFormedDottedQuad(ArgsOf(input')[1]))
        =>
        /\ err' = IPError
        /\ connections' = connections
        /\ nextId' = nextId
        /\ sockets' = sockets
      ]_vars

\* C7: addConnection accepts a port exactly when it is an integer with
\* 1024 < port < 65535; for a rejected port or a malformed IP it fails with
\* InvalidArgumentsError before any mutation: no entry is appended, _nextId
\* is unchanged and no connect attempt is issued.  Stated of the connect
\* commands that hand their address to addConnection (createIPv4 let it
\* through).
C7_AddConnectionValidates ==
    [][ (/\ Dispatched(s_connect)
         /\ Len(ArgsOf(input')) = 2
         /\ createIPv4(ArgsOf(input')[1]).err = NoError)
        =>
        IF /\ ValidPortText(ArgsOf(input')[2])
           /\ WellFormedDottedQuad(ArgsOf(input')[1])
        THEN /\ err' = NoError
             /\ Len(connections') = Len(connections) + 1
        ELSE /\ err' = InvalidArgumentsError
             /\ connections' = connections
             /\ nextId' = nextId
             /\ sockets' = sockets
      ]_vars

\* The Server the process constructs first: the first external IPv4
\* address of the host and the port of the command line.
FirstServer ==
    [ip |-> ExternalIPv4(interfaces)[1], port |-> parseInt(argv[1]),
     listen |-> parseInt(argv[1])]

\* C8: the endpoint is a singleton.  At most one Server is ever constructed
\* (so its socket is bound exactly once, on the first call), every
\* successful getInstance call returns that one instance, both commands
\* hold it, and its IP and port are those of its construction for ever.
C8_EndpointSingleton ==
    /\ Len(servers) <= 1
    /\ instance # NoInstance => instance = 1 /\ servers = <<FirstServer>>
    /\ instance = NoInstance => servers = <<>>
    /\ (event \in {"startup", "getInstance"} /\ err = NoError)
          => ret = instance /\ ret # NoInstance
    /\ pc = "running"
          => cmdServer.myip = instance /\ cmdServer.myport = instance

\* A third getInstance call, with the port of the command line, returned
\* the instance the two commands hold; one Server was constructed.
C8_Witness ==
    /\ event = "getInstance"
    /\ input = p_4000
    /\ err = NoError
    /\ ret = 1
    /\ instance = 1
    /\ cmdServer = [myip |-> 1, myport |-> 1]
    /\ servers = <<[ip |-> ip_local1, port |-> Num(4000), listen |-> Num(4000)]>>

C10_BadPortIsInvalidPortError ==
    (/\ event = "startup"
     /\ Len(argv) = 1
     /\ ~ValidPortText(argv[1]))
    =>
    /\ err = InvalidPortError
    /\ servers = <<>>
    /\ instance = NoInstance
    /\ pc = "exited"
    /\ exitCode = 1

\* The sockets the entries of a table refer to.
SocketsOf(table) == {table[i].socket : i \in 1..Len(table)}

\* C11: no automatic eviction.  A socket event of an outbound connection
\* (connect success, transport error, close by the peer) never adds, removes
\* or reorders table entries and never changes an id or the next
\* identifier; an entry leaves the table only in the step of a terminate
\* command that succeeded.
C11_SocketEventsKeepTable ==
    [][ /\ event' \in {"connect", "error", "close"} =>
               /\ connections' = connections
               /\ nextId' = nextId
        /\ ~(SocketsOf(connections) \subseteq SocketsOf(connections')) =>
               /\ Dispatched(s_terminate)
               /\ err' = NoError
      ]_vars

\* A connect attempt failed and its entry is still in the table, next to
\* another one.
C11_Witness ==
    /\ event = "error"
    /\ sock = 1
    /\ sockets[1].destroyed
    /\ Len(connections) = 2
    /\ connections[1].socket = 1
    /\ connections[1].id = 1
    /\ nextId = 3

\* C12: the dispatch loop.  A dispatched line, whether its command succeeded
\* or threw a per-command error (the error is caught and the process keeps
\* running), leaves the loop awaiting the next line, unless the command was
\* exit; the process ends from the loop only through the exit command or
\* the end of the input, both with exit code 0, and never with an error.
C12_LoopAwaitsNextLine ==
    /\ event = "line" /\ err # NoError => pc = "running" /\ exitCode = -1
    /\ event = "line" /\ CommandOf(input) # s_exit => pc = "running"
    /\ event \in {"connect", "error", "close", "getInstance"} => pc = "running"
    /\ pc = "exited" /\ event # "startup" =>
           /\ exitCode = 0
           /\ err = NoError
           /\ event = "close-input" \/ WasDispatched(s_exit)
    /\ pc = "running" =>
           /\ exitCode = -1
           /\ ENABLED LineHandler(Line(<<s_list>>))

\* A command threw ConnectionError, the error was caught, and the loop
\* awaits the next line.
C12_Witness ==
    /\ WasDispatched(s_terminate)
    /\ err = ConnectionError
    /\ pc = "running"
    /\ Len(connections) = 1

\* The commands the specification gives no arguments.
NoArgumentCommands == {s_help, s_myip, s_myport, s_list, s_exit}

\* C13: every no-argument command (help, myip, myport, list, exit) given
\* one or more arguments fails with the invalid-arguments error and performs
\* none of its effects: nothing is printed by the command, nothing is
\* written, and the process keeps running (`exit extra` does not terminate).
C13_NoArgumentCommandsRejectArguments ==
    /\ event = "line"
    /\ CommandOf(input) \in NoArgumentCommands
    /\ Len(ArgsOf(input)) > 0
    => /\ err = InvalidArgumentsError
       /\ out = <<>>
       /\ written = <<>>
       /\ pc = "running"
       /\ exitCode = -1

\* The text is the decimal numeral of an integer.
IntegerText(text) ==
    /\ text # <<>>
    /\ \A i \in 1..Len(text) : text[i] \in Digits

\* C14: terminate accepts exactly one integer argument.  With no argument,
\* with more than one (`terminate 1 2`) or with a non-integer argument it
\* fails with the invalid-arguments error and leaves the table as it was;
\* only with exactly one integer argument does it hand that integer to
\* removeConnection.
C14_TerminateTakesOneInteger ==
    [][ Dispatched(s_terminate) =>
            IF Len(ArgsOf(input')) = 1 /\ IntegerText(ArgsOf(input')[1])
            THEN \E r \in {removeConnection(
                               Manager(connections, nextId, sockets),
                               DigitsValue(ArgsOf(input')[1], 0))} :
                     /\ err' = r.err
                     /\ tableVars' = <<r.st.connections, r.st.nextId, r.st.sockets>>
            ELSE /\ err' = InvalidArgumentsError
                 /\ tableVars' = tableVars
      ]_vars

\* What a send line carries after its first two tokens and the separator
\* that follows them.
TextAfterId(line) ==
    SubSeq(Trim(line),
           Len(CommandOf(line)) + Len(ArgsOf(line)[1]) + 3,
           Len(Trim(line)))

\* The socket of the entry that holds identifier id.
SocketOfId(id) ==
    connections[CHOOSE i \in 1..Len(connections) : connections[i].id = id].socket

\* The text does not start with a decimal numeral (white space and a sign
\* aside): the ids for which isNaN(parseInt(text, 10)) holds.  `x` is one,
\* `1x` is not: it is read as 1.
NonNumeric(text) == parseInt(text).nan

C16_InboundSocketsPruned ==
    [][ event' \in {"inbound-error", "inbound-close"} =>
            /\ \A i \in 1..Len(tcpClients') : tcpClients'[i] # sock'
            /\ \A i \in 1..Len(tcpClients') : ~inbound'[tcpClients'[i]].destroyed
            /\ tableVars' = tableVars
      ]_vars

\* C17: idempotent connect.  The connect path issues a connect attempt on a
\* socket only when the socket is neither connecting nor destroyed, so that,
\* however often and whenever the path is invoked, at most one connect
\* attempt is in flight per connection at any time.
C17_OneAttemptInFlight ==
    [][ \A s \in 1..Len(sockets') :
            /\ sockets'[s].inflight <= 1
            /\ sockets'[s].destroyed => sockets'[s].inflight = 0
            /\ s <= Len(sockets) /\ sockets'[s].inflight > sockets[s].inflight =>
                   /\ ~sockets[s].connecting
                   /\ ~sockets[s].destroyed
      ]_vars

\* The connect path was invoked again while the first attempt of socket 1
\* was pending: one attempt is in flight.
C17_Witness ==
    /\ event = "reconnect"
    /\ sock = 1
    /\ sockets[1].connecting
    /\ ~sockets[1].open
    /\ sockets[1].inflight = 1

\* The state of a connection, read off its socket.
ConnectionState(sk) ==
    CASE sk.destroyed -> "Closed"
      [] ~sk.destroyed /\ sk.open -> "Connected"
      [] ~sk.destroyed /\ ~sk.open /\ sk.connecting -> "Connecting"
      [] OTHER -> "Unconnected"

\* The step creates the connection of socket s in state Connecting, or
\* leaves its state alone, or is its connect-success event, which takes it
\* from Connecting to Connected and writes ' joined' on s, once.
StartsOrConnects(s) ==
    IF s > Len(sockets)
    THEN /\ ConnectionState(sockets'[s]) = "Connecting"
         /\ Dispatched(s_connect)
    ELSE \/ ConnectionState(sockets'[s]) = ConnectionState(sockets[s])
         \/ /\ ConnectionState(sockets[s]) = "Connecting"
            /\ ConnectionState(sockets'[s]) = "Connected"
            /\ event' = "connect"
            /\ sock' = s
            /\ written' = << <<s, s_joined>> >>

\* The step closes the connection of socket s, open or still connecting.
Closes(s) ==
    /\ s <= Len(sockets)
    /\ ConnectionState(sockets[s]) \in {"Connecting", "Connected"}
    /\ ConnectionState(sockets'[s]) = "Closed"

\* ' joined' is written by the connect-success event only: a step that is
\* neither that event nor a send command writes nothing, and the event
\* writes ' joined' on its own socket, which was Connecting.
JoinedOnlyOnConnect ==
    /\ event' # "connect" /\ ~Dispatched(s_send) => written' = <<>>
    /\ event' = "connect" =>
           /\ written' = << <<sock', s_joined>> >>
           /\ ConnectionState(sockets[sock']) = "Connecting"

\* C18 as stated: a connection starts in Connecting; it becomes Connected
\* only on its socket's connect-success event, at which point ' joined' is
\* written on that socket (never before, once per successful connect); it
\* becomes Closed only on a transport error or an explicit terminate; no
\* other transition occurs.
C18_Lifecycle ==
    [][ /\ JoinedOnlyOnConnect
        /\ \A s \in 1..Len(sockets') :
               \/ StartsOrConnects(s)
               \/ /\ Closes(s)
                  /\ \/ event' = "error" /\ sock' = s
                     \/ Dispatched(s_terminate) /\ err' = NoError
      ]_vars

\* C18, amended: as above, and a connection also becomes Closed when the
\* peer closes the established connection (the socket's close without an
\* error), which happens from Connected only.
C18_LifecycleWithPeerClose ==
    [][ /\ JoinedOnlyOnConnect
        /\ \A s \in 1..Len(sockets') :
               \/ StartsOrConnects(s)
               \/ /\ Closes(s)
                  /\ \/ event' = "error" /\ sock' = s
                     \/ Dispatched(s_terminate) /\ err' = NoError
                     \/ /\ event' = "close"
                        /\ sock' = s
                        /\ ConnectionState(sockets[s]) = "Connected"
      ]_vars

\* The second connection went through Connecting and Connected and the
\* peer then closed it; its entry stays in the table, next to the first,
\* which is Connected.
C18_Witness ==
    /\ event = "close"
    /\ sock = 2
    /\ ConnectionState(sockets[2]) = "Closed"
    /\ ConnectionState(sockets[1]) = "Connected"
    /\ Len(connections) = 2
    /\ connections[2].socket = 2

\* C19: run to completion and non-blocking connect.  A dispatched command
\* is one step in which no socket event is served: the sockets already there
\* are as they were, but for the one a terminate destroys.  A valid connect
\* command returns to the prompt with its entry appended and Connecting,
\* one attempt in flight, nothing written; the success or failure of the
\* attempt is a later step of its own, on a socket an earlier step created.
C19_RunToCompletion ==
    [][ /\ event' = "line" =>
               /\ sock' = 0
               /\ \A s \in 1..Len(sockets) :
                      \/ sockets'[s] = sockets[s]
                      \/ /\ Dispatched(s_terminate)
                         /\ err' = NoError
                         /\ sockets'[s] = SocketDestroy(sockets[s])
        /\ Dispatched(s_connect) /\ err' = NoError =>
               /\ pc' = "running"
               /\ Len(connections') = Len(connections) + 1
               /\ Len(sockets') = Len(sockets) + 1
               /\ connections'[Len(connections')].socket = Len(sockets')
               /\ ConnectionState(sockets'[Len(sockets')]) = "Connecting"
               /\ sockets'[Len(sockets')].inflight = 1
               /\ written' = <<>>
        /\ event' \in {"connect", "error", "close"} =>
               /\ sock' \in 1..Len(sockets)
               /\ Len(sockets') = Len(sockets)
               /\ \A s \in 1..Len(sockets) : s # sock' => sockets'[s] = sockets[s]
      ]_vars

\* A valid connect command has just returned: its entry, the second, is in
\* the table and Connecting, the first is Connected, the loop awaits the
\* next line.
C19_Witness ==
    /\ WasDispatched(s_connect)
    /\ err = NoError
    /\ pc = "running"
    /\ Len(connections) = 2
    /\ ConnectionState(sockets[connections[2].socket]) = "Connecting"
    /\ ConnectionState(sockets[connections[1].socket]) = "Connected"

\* C20: listConnections and a successful sendMessage are pure with respect
\* to the table.  Whatever the state of the target connection (Connecting,
\* Connected or Closed), a list command and a send command that succeeded
\* leave the sequence of entries, every id, every remote IP and port, the
\* next identifier and the sockets as they were.
C20_ListAndSendArePure ==
    [][ Dispatched(s_list) \/ (Dispatched(s_send) /\ err' = NoError) =>
            /\ connections' = connections
            /\ nextId' = nextId
            /\ sockets' = sockets
      ]_vars

\* A send to the Closed connection 1 succeeded with two entries in the
\* table, the other one Connecting.
C20_Witness ==
    /\ WasDispatched(s_send)
    /\ err = NoError
    /\ written # <<>>
    /\ Len(connections) = 2
    /\ written[1][1] = connections[1].socket
    /\ ConnectionState(sockets[connections[1].socket]) = "Closed"
    /\ ConnectionState(sockets[connections[2].socket]) = "Connecting"
    /\ nextId = 3

\* C21: an input line whose first token is not a known command name raises
\* no error, changes neither the table (entries, ids, next identifier,
\* sockets) nor the Endpoint, writes to no socket, and leaves the loop
\* awaiting the next line.
C21_UnknownCommandIsHarmless ==
    [][ event' = "line" /\ CommandOf(input') \notin CommandNames =>
            /\ err' = NoError
            /\ tableVars' = tableVars
            /\ serverVars' = serverVars
            /\ written' = <<>>
            /\ pc' = "running"
            /\ exitCode' = exitCode
      ]_vars

\* The line `foo` was answered with the unknown-command message, two
\* entries in the table.
C21_Witness ==
    /\ event = "line"
    /\ input = Line(<<t_foo>>)
    /\ err = NoError
    /\ out = <<Log("Unkown command", <<>>)>>
    /\ pc = "running"
    /\ Len(connections) = 2

\* C22: at most one connect attempt is ever issued per connection.  The
\* attempt is the one of the connect command that creates the socket; no
\* later step issues another on it or changes its target.  A socket that is
\* Closed stays as it is: no reconnect, never Connecting or Connected again;
\* the only thing that still happens to its entry is the removal by a
\* terminate command that succeeded.
C22_NoReconnect ==
    [][ /\ \A s \in 1..Len(sockets') :
               IF s > Len(sockets)
               THEN /\ Dispatched(s_connect)
                    /\ sockets'[s].inflight = 1
               ELSE /\ sockets'[s].inflight <= sockets[s].inflight
                    /\ sockets'[s].connecting => sockets[s].connecting
                    /\ sockets'[s].host = sockets[s].host
                    /\ sockets'[s].port = sockets[s].port
                    /\ ConnectionState(sockets[s]) = "Closed" =>
                           sockets'[s] = sockets[s]
        /\ \A i \in 1..Len(connections) :
               ConnectionState(sockets[connections[i].socket]) = "Closed" =>
                   \/ \E j \in 1..Len(connections') :
                          /\ connections'[j].socket = connections[i].socket
                          /\ connections'[j].remoteIP = connections[i].remoteIP
                          /\ connections'[j].remotePort = connections[i].remotePort
                   \/ /\ Dispatched(s_terminate)
                      /\ err' = NoError
      ]_vars

\* The socket of the first entry was closed by an error or by the peer; a
\* later send command found the entry still in the table, Closed, with no
\* attempt in flight.
C22_Witness ==
    /\ WasDispatched(s_send)
    /\ err = NoError
    /\ Len(connections) = 1
    /\ connections[1].socket = 1
    /\ ConnectionState(sockets[1]) = "Closed"
    /\ sockets[1].inflight = 0
    /\ written = << <<1, t_hi>> >>

\* The id a send or terminate line names.
IdOf(line) == parseInt(ArgsOf(line)[1]).val

\* C23: identifiers are positional, not stable.  A send or a terminate that
\* succeeds with id j acts on the entry at position j of the table, the one
\* listConnections shows at row j: the send writes to that entry's socket,
\* the terminate destroys that entry's socket and removes it.  After a
\* successful terminate k on a table of size N, the entries before k are as
\* they were and, for every j with k <= j < N, position j (id j) holds the
\* entry that held id j + 1, so that a following send j or terminate j acts
\* on that entry.
C23_IdsArePositional ==
    [][ /\ Dispatched(s_send) /\ err' = NoError =>
               /\ IdOf(input') \in 1..Len(connections)
               /\ connections[IdOf(input')].id = IdOf(input')
               /\ written'[1][1] = connections[IdOf(input')].socket
        /\ Dispatched(s_terminate) /\ err' = NoError =>
               /\ IdOf(input') \in 1..Len(connections)
               /\ connections[IdOf(input')].id = IdOf(input')
               /\ sockets'[connections[IdOf(input')].socket].destroyed
               /\ connections[IdOf(input')].socket \notin SocketsOf(connections')
               /\ Len(connections') = Len(connections) - 1
               /\ \A j \in 1..(IdOf(input') - 1) : connections'[j] = connections[j]
               /\ \A j \in IdOf(input')..(Len(connections) - 1) :
                      /\ connections[j + 1].id = j + 1
                      /\ connections'[j] = [connections[j + 1] EXCEPT !.id = j]
      ]_vars

\* After `terminate 1` on two entries, `send 1 hi` wrote to the socket of
\* the entry that had been listed at row 2.
C23_Witness ==
    /\ WasDispatched(s_send)
    /\ input = Line(<<s_send, t_1, t_hi>>)
    /\ err = NoError
    /\ Len(connections) = 1
    /\ connections[1].id = 1
    /\ connections[1].socket = 2
    /\ sockets[1].destroyed
    /\ written = << <<2, t_hi>> >>

\* C24: terminate racing a pending connect.  A socket whose entry was
\* terminated, also while its connect attempt was still pending, is
\* destroyed with no attempt left in flight, and from then on it has no
\* event: every connect, error and close event is that of a socket of an
\* entry that is in the table and was not destroyed by terminate, and
\* ' joined' is written only on such a socket, so that no event of a
\* terminated socket changes the table or writes.
C24_TerminatedSocketIsSilent ==
    /\ \A s \in 1..Len(sockets) :
           s \notin SocketsOf(connections) =>
               /\ sockets[s].destroyed
               /\ ~sockets[s].connecting
               /\ ~sockets[s].open
               /\ sockets[s].inflight = 0
    /\ event \in {"connect", "error", "close"} => sock \in SocketsOf(connections)
    /\ event = "connect" =>
           /\ ConnectionState(sockets[sock]) = "Connected"
           /\ written = << <<sock, s_joined>> >>
    /\ event \in {"error", "close"} => written = <<>>

\* The first entry was terminated and its socket destroyed; the connect
\* attempt of the second then succeeded: ' joined' went to the second
\* socket and the table holds that entry alone, with id 1.
C24_Witness ==
    /\ event = "connect"
    /\ sock = 2
    /\ written = << <<2, s_joined>> >>
    /\ Len(sockets) = 2
    /\ sockets[1].destroyed
    /\ Len(connections) = 1
    /\ connections[1].socket = 2
    /\ connections[1].id = 1

\* C25: addConnection never deduplicates.  Every connect command with a
\* valid IP and a valid port succeeds and grows the table by exactly one
\* entry, appended after the entries already there, with id = previous size
\* + 1, the given remote IP and port and a socket created for it (Connecting),
\* also when the table already holds an entry for that IP and port, whatever
\* the state of that entry.
C25_NoDeduplication ==
    [][ /\ Dispatched(s_connect)
        /\ Len(ArgsOf(input')) = 2
        /\ WellFormedDottedQuad(ArgsOf(input')[1])
        /\ ValidPortText(ArgsOf(input')[2])
        => /\ err' = NoError
           /\ Len(connections') = Len(connections) + 1
           /\ SubSeq(connections', 1, Len(connections)) = connections
           /\ connections'[Len(connections')] =
                  [id |-> Len(connections) + 1,
                   remoteIP |-> ArgsOf(input')[1],
                   remotePort |-> Port(parseInt(ArgsOf(input')[2])),
                   socket |-> Len(sockets) + 1]
           /\ nextId' = Len(connections) + 2
           /\ Len(sockets') = Len(sockets) + 1
           /\ SubSeq(sockets', 1, Len(sockets)) = sockets
           /\ ConnectionState(sockets'[Len(sockets')]) = "Connecting"
      ]_vars

\* `connect 10.0.0.5 9000` was given twice: the table holds two entries for
\* that peer, the first Closed, the second just added and Connecting.
C25_Witness ==
    /\ WasDispatched(s_connect)
    /\ input = Line(<<s_connect, ip_A, p_9000>>)
    /\ err = NoError
    /\ Len(connections) = 2
    /\ connections[1].remoteIP = connections[2].remoteIP
    /\ connections[1].remotePort = connections[2].remotePort
    /\ connections[1].socket # connections[2].socket
    /\ connections[2].id = 2
    /\ ConnectionState(sockets[connections[1].socket]) = "Closed"
    /\ ConnectionState(sockets[connections[2].socket]) = "Connecting"

=============================================================================
